---------------------------- MODULE Spec2Model ----------------------------
(***************************************************************************)
(* State-machine model of the RAG PDF chat client:                         *)
(*   - the API client            (lib/api: api.uploadPdf, api.askQuestion) *)
(*   - the upload hook           (useFileUpload)                           *)
(*   - the question hook         (useQuestions)                            *)
(*   - the components            (FileUpload, QuestionInterface, Home)     *)
(*                                                                         *)
(* A nullable value (T | null) is the empty sequence (null) or a           *)
(* one-element sequence (the value).  A string the code inspects character *)
(* by character (the question text, which is trimmed) is a sequence of     *)
(* one-character strings.                                                  *)
(*                                                                         *)
(* An async function is split where it awaits: the part up to the request  *)
(* being sent runs inside the UI event handler, the part after the await   *)
(* runs when the response arrives (a ...Settles action), and the caller's  *)
(* continuation runs as the next microtask (a ...Resume action), before    *)
(* any other event is handled.                                             *)
(***************************************************************************)
EXTENDS Integers, Sequences, FiniteSets, TLC

VARIABLES
    uploading,          \* useFileUpload: uploading
    uploadResult,       \* useFileUpload: uploadResult (nullable)
    uploadError,        \* useFileUpload: error (nullable string)
    hasUploadedFile,    \* Home: hasUploadedFile
    pageUploadResult,   \* Home: uploadResult (nullable)
    question,           \* QuestionInterface: question (input text)
    loading,            \* useQuestions: loading
    history,            \* useQuestions: history
    questionError,      \* useQuestions: error (nullable string)
    upInFlight,         \* upload requests sent and not yet answered
    upSettled,          \* the uploadFile promise that has settled and whose
                        \* awaiting handleFileSelect has not resumed (nullable)
    askInFlight,        \* ask requests sent and not yet answered
    askSettled,         \* the askQuestion promise that has settled and whose
                        \* awaiting handleSubmit has not resumed (nullable)
    upIssued,           \* number of upload requests sent so far
    askIssued,          \* number of ask requests sent so far
    now,                \* the clock read by Date.now()
    lastAccepted,       \* the body of the last upload response that arrived
                        \* with a 2xx status and a JSON body (nullable)
    last                \* the handler or continuation that ran last (for
                        \* handleSubmit, also where it stopped)

vars == << uploading, uploadResult, uploadError, hasUploadedFile,
           pageUploadResult, question, loading, history, questionError,
           upInFlight, upSettled, askInFlight, askSettled, upIssued,
           askIssued, now, lastAccepted, last >>

uploadVars == << uploading, uploadResult, uploadError, upInFlight, upSettled,
                 upIssued >>
pageVars == << hasUploadedFile, pageUploadResult >>
questionVars == << question, loading, history, questionError, askInFlight,
                   askSettled, askIssued, now >>

-----------------------------------------------------------------------------
(* Bounds of the model. *)

MaxRequests == 3    \* requests (upload and ask) sent in one behaviour

-----------------------------------------------------------------------------
(* Values. *)

None == << >>
Some(v) == << v >>

PdfType == "application/pdf"

\* File objects: a name and a MIME type.
Files == { [name |-> "a.pdf", type |-> PdfType],
           [name |-> "notes.txt", type |-> "text/plain"] }

\* The file lists of a drag-and-drop or of the file input: every list of at
\* most two files.
FileLists == UNION { [1..n -> Files] : n \in {0, 1, 2} }

\* The texts typed into the question input: empty, blank, and two questions,
\* one of them with blanks around it.
Texts == { << >>, << " " >>, << "a" >>, << " ", "b", " " >> }

\* interface UploadResponse
UploadResponses ==
    { [message |-> "PDF processed", filename |-> "a.pdf",
       chunks_created |-> c, file_size_mb |-> 1] : c \in {7, 12} }

\* interface QuestionResponse
QuestionResponses ==
    { [answer |-> "A1", source_documents |-> << >>],
      [answer |-> "A2", source_documents |-> << "p.3" >>] }

\* What fetch() settles with.  net = FALSE: the transport failed and fetch
\* rejected.  Otherwise an HTTP response: its status, the `detail` message of
\* an error body (nullable) and the parsed JSON of the body (nullable: null
\* when the body is not JSON).
NetworkFailure == [net |-> FALSE, status |-> 0, detail |-> None, json |-> None]

HttpOk(body) == [net |-> TRUE, status |-> 200, detail |-> None, json |-> body]

HttpError(status, detail) ==
    [net |-> TRUE, status |-> status, detail |-> detail, json |-> None]

ServerMessages == { None, Some("server message") }

UploadOutcomes ==
    { NetworkFailure }
    \cup { HttpOk(Some(b)) : b \in UploadResponses }
    \cup { HttpOk(None) }
    \cup { HttpError(s, d) : s \in {413, 500}, d \in ServerMessages }

AskOutcomes ==
    { NetworkFailure }
    \cup { HttpOk(Some(b)) : b \in QuestionResponses }
    \cup { HttpOk(None) }
    \cup { HttpError(s, d) : s \in {500}, d \in ServerMessages }

\* Response.ok
ResponseOk(resp) == resp.status >= 200 /\ resp.status <= 299

\* Thrown values: the class, the status (ApiError only) and the message.
ApiError(status, message) ==
    [class |-> "ApiError", status |-> status, message |-> message]
Error(message) == [class |-> "Error", status |-> 0, message |-> message]
TransportError == [class |-> "TypeError", status |-> 0, message |-> "Failed to fetch"]
JsonError == [class |-> "SyntaxError", status |-> 0, message |-> "Unexpected token"]

\* How a promise settles: fulfilled with a value or rejected with an error.
Fulfilled(v) == [ok |-> TRUE, value |-> Some(v), err |-> None]
Rejected(e) == [ok |-> FALSE, value |-> None, err |-> Some(e)]


-----------------------------------------------------------------------------
(* The API client (lib/api). *)

\* response.json()
ResponseJson(resp) ==
    IF resp.json = None THEN Rejected(JsonError) ELSE Fulfilled(resp.json[1])

\* api.uploadPdf, from the point where fetch() has settled with resp.
uploadPdf(resp) ==
    IF ~resp.net THEN Rejected(TransportError)
    ELSE IF ~ResponseOk(resp) THEN Rejected(Error("Upload failed"))
    ELSE ResponseJson(resp)

\* api.askQuestion, from the point where fetch() has settled with resp.
apiAskQuestion(resp) ==
    IF ~resp.net THEN Rejected(TransportError)
    ELSE IF ~ResponseOk(resp) THEN Rejected(Error("Question failed"))
    ELSE ResponseJson(resp)

-----------------------------------------------------------------------------
(* The upload hook (useFileUpload). *)

\* No promise continuation is waiting to run: a continuation is a microtask
\* and runs before the next UI or network event is handled.
NoPendingMicrotask == upSettled = None /\ askSettled = None

\* uploadFile, up to `await api.uploadPdf(file)`: the request is sent.
uploadFileStart(file) ==
    /\ uploading' = TRUE
    /\ uploadError' = None
    /\ upInFlight' = upInFlight \cup { [id |-> upIssued + 1, file |-> file] }
    /\ upIssued' = upIssued + 1
    /\ UNCHANGED << uploadResult, upSettled >>

\* catch (err): the display string stored in the hook's error
uploadErrorMessage(err) ==
    IF err.class = "ApiError" THEN err.message ELSE "Upload failed"

\* uploadFileSettle with setUploading(false) at the end of the try block
\* instead of in a finally block.
uploadFileSettle_NoFinally(out) ==
    IF out.ok
      THEN /\ uploadResult' = Some(out.value[1])
           /\ uploading' = FALSE
           /\ UNCHANGED uploadError
      ELSE /\ uploadError' = Some(uploadErrorMessage(out.err[1]))
           /\ UNCHANGED << uploadResult, uploading >>

\* uploadFileSettle returning the result without storing it.
uploadFileSettle_ResultNotStored(out) ==
    /\ IF out.ok
         THEN UNCHANGED << uploadResult, uploadError >>
         ELSE /\ uploadError' = Some(uploadErrorMessage(out.err[1]))
              /\ UNCHANGED uploadResult
    /\ uploading' = FALSE

\* uploadFileSettle that keeps a result already held: a response that
\* arrives after another one is dropped.
uploadFileSettle_FirstWins(out) ==
    /\ IF out.ok
         THEN /\ uploadResult' = IF uploadResult = None
                                   THEN Some(out.value[1]) ELSE uploadResult
              /\ UNCHANGED uploadError
         ELSE /\ uploadError' = Some(uploadErrorMessage(out.err[1]))
              /\ UNCHANGED uploadResult
    /\ uploading' = FALSE

\* uploadFile, after the await: try / catch / finally with the outcome `out`
\* of api.uploadPdf.
uploadFileSettle(out) ==
    /\ IF out.ok
         THEN /\ uploadResult' = Some(out.value[1])
              /\ UNCHANGED uploadError
         ELSE /\ uploadError' = Some(uploadErrorMessage(out.err[1]))
              /\ UNCHANGED uploadResult
    /\ uploading' = FALSE

\* uploadFilePromise without `throw err`: the promise is fulfilled with
\* undefined after a failure.
uploadFilePromise_ErrorSwallowed(out) ==
    IF out.ok THEN Fulfilled(out.value[1])
    ELSE [ok |-> TRUE, value |-> None, err |-> None]

\* uploadFile's promise: `return result` fulfils it, `throw err` rejects it
\* with the error api.uploadPdf threw.
uploadFilePromise(out) ==
    IF out.ok THEN Fulfilled(out.value[1]) ELSE Rejected(out.err[1])

\* reset that leaves the error in place.
reset_ErrorKept ==
    /\ uploadResult' = None
    /\ UNCHANGED << uploadError, uploading >>

\* reset
reset ==
    /\ uploadResult' = None
    /\ uploadError' = None
    /\ UNCHANGED uploading

-----------------------------------------------------------------------------
(* The page (Home). *)

\* handleUploadSuccess without setHasUploadedFile(true).
handleUploadSuccess_FlagNotSet(result) ==
    /\ pageUploadResult' = result
    /\ UNCHANGED hasUploadedFile

\* handleUploadSuccess that keeps the result of the first successful upload.
handleUploadSuccess_FirstKept(result) ==
    /\ pageUploadResult' = IF pageUploadResult = None
                             THEN result ELSE pageUploadResult
    /\ hasUploadedFile' = TRUE

\* handleUploadSuccess
handleUploadSuccess(result) ==
    /\ pageUploadResult' = result
    /\ hasUploadedFile' = TRUE

-----------------------------------------------------------------------------
(* The upload widget (FileUpload). *)

\* files.find(file => file.type === 'application/pdf'): the first match
RECURSIVE FindPdf(_)
FindPdf(files) ==
    IF files = << >> THEN None
    ELSE IF Head(files).type = PdfType THEN Some(Head(files))
    ELSE FindPdf(Tail(files))

\* The picker (drop zone and file input) is rendered unless uploadResult is
\* set, in which case the success summary replaces it.
PickerShown == uploadResult = None

\* handleFileSelect, up to `await uploadFile(file)`
handleFileSelect(file) == uploadFileStart(file)

\* onDrop: handleDrop with the dropped files
handleDrop(files) ==
    /\ NoPendingMicrotask
    /\ PickerShown
    /\ upIssued + askIssued < MaxRequests
    /\ LET pdfFile == FindPdf(files)
       IN  IF pdfFile # None
             THEN handleFileSelect(pdfFile[1])
             ELSE UNCHANGED uploadVars
    /\ last' = "handleDrop"
    /\ UNCHANGED lastAccepted
    /\ UNCHANGED << pageVars, questionVars >>

\* onChange of the file input (disabled while uploading): handleFileInput
handleFileInput(files) ==
    /\ NoPendingMicrotask
    /\ PickerShown
    /\ ~uploading
    /\ upIssued + askIssued < MaxRequests
    /\ IF files # << >>
         THEN handleFileSelect(files[1])
         ELSE UNCHANGED uploadVars
    /\ last' = "handleFileInput"
    /\ UNCHANGED lastAccepted
    /\ UNCHANGED << pageVars, questionVars >>

\* The response to upload request r arrives as resp: api.uploadPdf finishes
\* and uploadFile runs to its end, settling the promise handleFileSelect
\* awaits.
UploadSettles(r, resp) ==
    /\ NoPendingMicrotask
    /\ r \in upInFlight
    /\ LET api == uploadPdf(resp)
       IN  /\ uploadFileSettle(api)
           /\ upSettled' = Some([id |-> r.id, file |-> r.file, resp |-> resp,
                                 api |-> api, out |-> uploadFilePromise(api)])
    /\ upInFlight' = upInFlight \ {r}
    /\ lastAccepted' = IF resp.net /\ ResponseOk(resp) /\ resp.json # None
                         THEN resp.json ELSE lastAccepted
    /\ last' = "uploadFile"
    /\ UNCHANGED << upIssued, pageVars, questionVars >>

\* handleFileSelectResume with onUploadSuccess(result) moved out of the try
\* block: it is called after a failure too, with result undefined.
handleFileSelectResume_SuccessAlways ==
    /\ upSettled # None
    /\ handleUploadSuccess(upSettled[1].out.value)
    /\ upSettled' = None
    /\ last' = "handleFileSelectResume"
    /\ UNCHANGED lastAccepted
    /\ UNCHANGED << uploading, uploadResult, uploadError, upInFlight,
                    upIssued, questionVars >>

\* handleFileSelect, after `await uploadFile(file)`: onUploadSuccess(result)
\* when the promise was fulfilled, the empty catch when it was rejected.
handleFileSelectResume ==
    /\ upSettled # None
    /\ LET out == upSettled[1].out
       IN  IF out.ok
             THEN handleUploadSuccess(out.value)
             ELSE UNCHANGED pageVars
    /\ upSettled' = None
    /\ last' = "handleFileSelectResume"
    /\ UNCHANGED lastAccepted
    /\ UNCHANGED << uploading, uploadResult, uploadError, upInFlight,
                    upIssued, questionVars >>

\* The reset button of the success summary: resetUpload
resetUpload ==
    /\ NoPendingMicrotask
    /\ ~PickerShown
    /\ reset
    /\ last' = "resetUpload"
    /\ UNCHANGED lastAccepted
    /\ UNCHANGED << upInFlight, upSettled, upIssued, pageVars, questionVars >>

-----------------------------------------------------------------------------
(* The question hook (useQuestions). *)

\* askQuestionStart without setLoading(true).
askQuestionStart_NotBusy(q) ==
    /\ questionError' = None
    /\ askInFlight' = askInFlight \cup { [id |-> askIssued + 1, question |-> q] }
    /\ askIssued' = askIssued + 1
    /\ UNCHANGED << loading, history, askSettled, now >>

\* askQuestion, up to `await api.askQuestion(question)`: the request is sent.
askQuestionStart(q) ==
    /\ loading' = TRUE
    /\ questionError' = None
    /\ askInFlight' = askInFlight \cup { [id |-> askIssued + 1, question |-> q] }
    /\ askIssued' = askIssued + 1
    /\ UNCHANGED << history, askSettled, now >>

\* catch (err): the display string stored in the hook's error
questionErrorMessage(err) ==
    IF err.class = "ApiError" THEN err.message ELSE "Question failed"

\* newEntry.  Date.now() and new Date() read the clock at t.  The field req
\* is not a field of the code's entry: it records which request (numbered in
\* the order the requests were sent) the entry answers.
newEntry(r, result, t) ==
    [id |-> t, question |-> r.question, answer |-> result.answer,
     source_documents |-> result.source_documents, timestamp |-> t,
     req |-> r.id]

\* prepend that adds the entry at the end: [...prev, newEntry].
prepend_AtEnd(entry, prev) == prev \o << entry >>

\* prepend that drops the entries already held: setHistory([newEntry]).
prepend_Replace(entry, prev) == << entry >>

\* setHistory(prev => [newEntry, ...prev])
prepend(entry, prev) == << entry >> \o prev

\* askQuestion, after the await: try / catch / finally with the outcome `out`
\* of api.askQuestion for request r, the clock reading t.
askQuestionSettle(r, out, t) ==
    /\ IF out.ok
         THEN /\ history' = prepend(newEntry(r, out.value[1], t), history)
              /\ UNCHANGED questionError
         ELSE /\ questionError' = Some(questionErrorMessage(out.err[1]))
              /\ UNCHANGED history
    /\ loading' = FALSE

\* askQuestion's promise: `return result` fulfils it, `throw err` rejects it
\* with the error api.askQuestion threw.
askQuestionPromise(out) ==
    IF out.ok THEN Fulfilled(out.value[1]) ELSE Rejected(out.err[1])

\* clearHistory that also clears the error.
clearHistory_ErrorCleared ==
    /\ history' = << >>
    /\ questionError' = None
    /\ UNCHANGED loading

\* clearHistory
clearHistory ==
    /\ history' = << >>
    /\ UNCHANGED << loading, questionError >>

-----------------------------------------------------------------------------
(* The question interface (QuestionInterface), mounted by Home. *)

\* Home renders <QuestionInterface disabled={!hasUploadedFile}/> only when
\* hasUploadedFile is set.
Mounted == hasUploadedFile
disabled == ~hasUploadedFile

IsSpace(c) == c = " "

\* String.prototype.trim
RECURSIVE TrimStart(_)
TrimStart(s) ==
    IF s # << >> /\ IsSpace(Head(s)) THEN TrimStart(Tail(s)) ELSE s

RECURSIVE TrimEnd(_)
TrimEnd(s) ==
    IF s # << >> /\ IsSpace(s[Len(s)])
      THEN TrimEnd(SubSeq(s, 1, Len(s) - 1))
      ELSE s

trim(s) == TrimEnd(TrimStart(s))

\* SubmitRejected without the loading test.
SubmitRejected_LoadingIgnored == trim(question) = << >> \/ disabled

\* handleSubmit: `if (!question.trim() || loading || disabled) return;`
SubmitRejected == trim(question) = << >> \/ loading \/ disabled

\* onChange of the text input (disabled while loading): setQuestion
setQuestion(text) ==
    /\ NoPendingMicrotask
    /\ Mounted
    /\ ~(loading \/ disabled)
    /\ question' = text
    /\ last' = "setQuestion"
    /\ UNCHANGED lastAccepted
    /\ UNCHANGED << loading, history, questionError, askInFlight, askSettled,
                    askIssued, now, uploadVars, pageVars >>

\* onSubmit of the form: handleSubmit, up to its early return or up to
\* `await askQuestion(...)`
handleSubmit ==
    /\ NoPendingMicrotask
    /\ Mounted
    /\ upIssued + askIssued < MaxRequests
    /\ IF SubmitRejected
         THEN UNCHANGED << loading, history, questionError, askInFlight,
                           askSettled, askIssued, now >>
         ELSE askQuestionStart(trim(question))
    /\ last' = IF SubmitRejected THEN "handleSubmit:return"
                ELSE "handleSubmit:await"
    /\ UNCHANGED lastAccepted
    /\ UNCHANGED << question, uploadVars, pageVars >>

\* The response to ask request r arrives as resp while the clock reads t,
\* which is the last reading or later (one unit stands for any later time):
\* api.askQuestion finishes and askQuestion runs to its end, settling the
\* promise handleSubmit awaits.
AskSettles(r, resp, t) ==
    /\ NoPendingMicrotask
    /\ r \in askInFlight
    /\ t \in { now, now + 1 }
    /\ now' = t
    /\ LET api == apiAskQuestion(resp)
       IN  /\ askQuestionSettle(r, api, t)
           /\ askSettled' = Some([id |-> r.id, question |-> r.question,
                                  resp |-> resp, api |-> api,
                                  out |-> askQuestionPromise(api)])
    /\ askInFlight' = askInFlight \ {r}
    /\ last' = "askQuestion"
    /\ UNCHANGED lastAccepted
    /\ UNCHANGED << question, askIssued, uploadVars, pageVars >>

\* handleSubmit, after `await askQuestion(...)`: setQuestion('') when the
\* promise was fulfilled, the empty catch when it was rejected.
handleSubmitResume ==
    /\ askSettled # None
    /\ IF askSettled[1].out.ok
         THEN question' = << >>
         ELSE UNCHANGED question
    /\ askSettled' = None
    /\ last' = "handleSubmitResume"
    /\ UNCHANGED lastAccepted
    /\ UNCHANGED << loading, history, questionError, askInFlight, askIssued,
                    now, uploadVars, pageVars >>

\* The "Clear History" button, rendered when history is not empty
ClearHistoryClick ==
    /\ NoPendingMicrotask
    /\ Mounted
    /\ Len(history) > 0
    /\ clearHistory
    /\ last' = "clearHistory"
    /\ UNCHANGED lastAccepted
    /\ UNCHANGED << question, askInFlight, askSettled, askIssued, now,
                    uploadVars, pageVars >>

-----------------------------------------------------------------------------
(* The specification. *)

Init ==
    /\ uploading = FALSE
    /\ uploadResult = None
    /\ uploadError = None
    /\ hasUploadedFile = FALSE
    /\ pageUploadResult = None
    /\ question = << >>
    /\ loading = FALSE
    /\ history = << >>
    /\ questionError = None
    /\ upInFlight = {}
    /\ upSettled = None
    /\ askInFlight = {}
    /\ askSettled = None
    /\ upIssued = 0
    /\ askIssued = 0
    /\ now = 0
    /\ lastAccepted = None
    /\ last = "mount"

Drop == \E files \in FileLists : handleDrop(files)
FileInput == \E files \in FileLists : handleFileInput(files)
UploadResponse == \E r \in upInFlight, resp \in UploadOutcomes : UploadSettles(r, resp)
Type == \E text \in Texts : setQuestion(text)
AskResponse ==
    \E r \in askInFlight, resp \in AskOutcomes, t \in 0..MaxRequests :
        AskSettles(r, resp, t)

Next ==
    \/ Drop
    \/ FileInput
    \/ UploadResponse
    \/ handleFileSelectResume
    \/ resetUpload
    \/ Type
    \/ handleSubmit
    \/ AskResponse
    \/ handleSubmitResume
    \/ ClearHistoryClick

Spec == Init /\ [][Next]_vars

\* Every request is answered, and a continuation that is ready runs.
Fairness ==
    /\ WF_vars(UploadResponse)
    /\ WF_vars(handleFileSelectResume)
    /\ WF_vars(AskResponse)
    /\ WF_vars(handleSubmitResume)

FairSpec == Spec /\ Fairness

-----------------------------------------------------------------------------
(* Properties. *)

\* The response is a failure response: no response at all, or a non-2xx one.
TransportFailed(resp) == ~resp.net
HttpFailed(resp) == resp.net /\ ~ResponseOk(resp)

\* The error the API contract asks for on a non-2xx response: the status and
\* the server's message, the generic message when the body supplies none.
ContractError(resp, generic) ==
    ApiError(resp.status,
             IF resp.detail # None THEN resp.detail[1] ELSE generic)

\* C1: an API client call (upload, ask) whose response is non-2xx fails with
\* an ApiError carrying the response's status and the server's message (the
\* generic message only when the body supplies none); a transport failure is
\* propagated unchanged.
C1_ApiCallFailsWithTypedError ==
    /\ upSettled # None =>
         LET s == upSettled[1]
         IN  /\ HttpFailed(s.resp) =>
                   s.api = Rejected(ContractError(s.resp, "Upload failed"))
             /\ TransportFailed(s.resp) => s.api = Rejected(TransportError)
    /\ askSettled # None =>
         LET s == askSettled[1]
         IN  /\ HttpFailed(s.resp) =>
                   s.api = Rejected(ContractError(s.resp, "Question failed"))
             /\ TransportFailed(s.resp) => s.api = Rejected(TransportError)

\* C2: once an upload answered with a non-2xx response has settled, the
\* upload hook's error is the message the server sent, and 'Upload failed'
\* only when the server sent none.
C2_UploadErrorIsServerMessage ==
    (upSettled # None /\ HttpFailed(upSettled[1].resp)) =>
        uploadError = IF upSettled[1].resp.detail # None
                        THEN upSettled[1].resp.detail
                        ELSE Some("Upload failed")

\* C3: right after an uploadFile call has settled with failure, the upload
\* hook's uploadResult is null.
C3_FailedUploadLeavesNoResult ==
    (upSettled # None /\ ~upSettled[1].out.ok) => uploadResult = None

\* Steps: an upload request is sent; an uploadFile call settles; an
\* askQuestion call settles.
UploadSent == upIssued' = upIssued + 1
UploadSettled == upSettled = None /\ upSettled' # None
AskSettled == askSettled = None /\ askSettled' # None

\* C4: uploadFile sets uploading and clears the error when it is triggered,
\* and clears uploading when its request settles, with success or failure;
\* so, every request being answered, uploading = TRUE leads to
\* uploading = FALSE.
C4_UploadingIsCleared ==
    /\ [][UploadSent => (uploading' /\ uploadError' = None)]_vars
    /\ [][UploadSettled => ~uploading']_vars
    /\ (uploading ~> ~uploading)

\* A failed upload has settled and uploading is off again.
C4_Witness ==
    /\ upSettled # None
    /\ ~upSettled[1].out.ok
    /\ ~uploading

\* No upload request is in flight and no upload continuation is pending.
UploadIdle == upInFlight = {} /\ upSettled = None

\* The only upload in flight was triggered from the idle state and nothing
\* has been triggered or has settled since.
SingleUploadInFlight == Cardinality(upInFlight) = 1 /\ uploading

\* C5: for a single upload triggered from the idle state that the server
\* accepts: uploading is false before the trigger, true while the request is
\* in flight and false after it settles; then uploadResult is exactly the
\* metadata the server returned, and uploadFile returns that same value.
C5_SingleAcceptedUpload ==
    /\ [](UploadIdle => ~uploading)
    /\ [][(UploadIdle /\ UploadSent) => SingleUploadInFlight']_vars
    /\ [][(SingleUploadInFlight /\ upInFlight' = upInFlight) => uploading']_vars
    /\ [][(SingleUploadInFlight /\ UploadSettled
             /\ upSettled'[1].resp \in { HttpOk(Some(b)) : b \in UploadResponses })
          => /\ ~uploading'
             /\ upInFlight' = {}
             /\ uploadResult' = upSettled'[1].resp.json
             /\ upSettled'[1].out = Fulfilled(upSettled'[1].resp.json[1])]_vars

\* The first upload, alone in flight, has been accepted and has settled.
C5_Witness ==
    /\ upIssued = 1
    /\ upSettled # None
    /\ upSettled[1].out.ok
    /\ uploadResult = upSettled[1].resp.json
    /\ ~uploading

\* C6: a submit while an ask request is in flight sends no request and
\* changes no state, so at most one ask request is in flight and loading is
\* set while it is; the history changes only when an ask settles with
\* success, which puts exactly one new entry, for that request, at index 0,
\* or when it is cleared.
C6_SubmitWhileLoadingIsNoOp ==
    /\ [](Cardinality(askInFlight) <= 1 /\ (askInFlight # {} => loading))
    /\ [][(loading /\ last' \in {"handleSubmit:return", "handleSubmit:await"})
          => /\ last' = "handleSubmit:return"
             /\ UNCHANGED << uploadVars, pageVars, questionVars >>]_vars
    /\ [][(AskSettled /\ askSettled'[1].out.ok)
          => /\ Len(history') = Len(history) + 1
             /\ Tail(history') = history
             /\ history'[1].req = askSettled'[1].id
             /\ history'[1].question = askSettled'[1].question]_vars
    /\ [][history' # history
          => \/ AskSettled /\ askSettled'[1].out.ok
             \/ last' = "clearHistory"]_vars

\* A submit was made while a request was in flight, and returned early.
C6_Witness ==
    /\ last = "handleSubmit:return"
    /\ loading
    /\ Cardinality(askInFlight) = 1
    /\ trim(question) # << >>

\* C7: the history is ordered newest-first by submission: of two entries,
\* the one whose question was submitted later is at the smaller index.
C7_HistoryNewestFirst ==
    \A i, j \in 1..Len(history) :
        i < j => history[i].req > history[j].req

\* Q1 = "a" was asked, then Q2 = "b"; both were answered.
C7_Witness ==
    /\ Len(history) = 2
    /\ history[1].question = << "b" >>
    /\ history[2].question = << "a" >>
    /\ history[1].req = 2
    /\ history[2].req = 1

\* C8: right after reset() the upload hook's uploadResult and error are both
\* null, and uploading is what it was.
C8_ResetClearsResultAndError ==
    [][last' = "resetUpload"
       => /\ uploadResult' = None
          /\ uploadError' = None
          /\ uploading' = uploading]_vars

\* reset() has run while an overlapping upload was still in flight.
C8_Witness ==
    /\ last = "resetUpload"
    /\ uploadResult = None
    /\ uploadError = None
    /\ upInFlight # {}

\* C9 as stated: with no request in flight, right after clearHistory() the
\* history is empty and the error is absent, as in the initial state.
C9_ClearRestoresInitialState ==
    (last = "clearHistory" /\ askInFlight = {})
        => (history = << >> /\ questionError = None)

\* C9, amended: right after clearHistory() the history is empty; the error
\* and the loading flag are what they were.
C9_ClearEmptiesHistoryOnly ==
    [][last' = "clearHistory"
       => /\ history' = << >>
          /\ questionError' = questionError
          /\ loading' = loading]_vars

\* clearHistory() has run with no request in flight and an error on display.
C9_Witness ==
    /\ last = "clearHistory"
    /\ askInFlight = {}
    /\ history = << >>
    /\ questionError # None

\* The response is a failure: no response, or a non-2xx one.
Failed(resp) == TransportFailed(resp) \/ HttpFailed(resp)

\* C10: when uploadFile or askQuestion fails (transport failure or non-2xx
\* response) the hook stores a display string in its error and its promise
\* is rejected, so the caller's success continuation does not run:
\* onUploadSuccess is not called, the question input is not cleared.
C10_FailureStoredAndResignalled ==
    /\ []((upSettled # None /\ Failed(upSettled[1].resp))
            => (uploadError # None /\ ~upSettled[1].out.ok))
    /\ []((askSettled # None /\ Failed(askSettled[1].resp))
            => (questionError # None /\ ~askSettled[1].out.ok))
    /\ [][(upSettled # None /\ Failed(upSettled[1].resp) /\ upSettled' = None)
          => UNCHANGED pageVars]_vars
    /\ [][(askSettled # None /\ Failed(askSettled[1].resp) /\ askSettled' = None)
          => question' = question]_vars

\* The continuation of a failed first upload has run: the error is on
\* display and the page was not told of a success.
C10_Witness ==
    /\ last = "handleFileSelectResume"
    /\ upIssued = 1
    /\ uploadError # None
    /\ ~hasUploadedFile
    /\ pageUploadResult = None

\* C11: no ask request is sent before an upload has settled successfully:
\* whenever an ask request has been sent, some upload response had arrived
\* with success before, and a step that sends one starts in such a state.
C11_NoAskBeforeUpload ==
    /\ []((askIssued > 0 \/ askInFlight # {}) => lastAccepted # None)
    /\ [][askIssued' # askIssued => lastAccepted # None]_vars

\* The first ask request is in flight, after an accepted upload.
C11_Witness ==
    /\ askIssued = 1
    /\ askInFlight # {}
    /\ lastAccepted # None

\* C12: hasUploadedFile is false as long as no upload has succeeded, is true
\* once the page has handled a successful upload, and never returns to
\* false, neither on a later failed upload nor on the widget's reset.
C12_ReadyFlagSetOnceForAll ==
    /\ [](lastAccepted = None => ~hasUploadedFile)
    /\ []((lastAccepted # None /\ upSettled = None) => hasUploadedFile)
    /\ [][(upSettled # None /\ upSettled[1].out.ok /\ upSettled' = None)
          => hasUploadedFile']_vars
    /\ [][hasUploadedFile => hasUploadedFile']_vars

\* The widget's reset has discarded the result of a handled upload and the
\* flag is still set.
C12_Witness ==
    /\ last = "resetUpload"
    /\ uploadResult = None
    /\ hasUploadedFile

\* C13: every file the widget calls uploadFile for, dropped or picked, has
\* MIME type 'application/pdf'.
C13_OnlyPdfUploaded ==
    /\ \A r \in upInFlight : r.file.type = PdfType
    /\ upSettled # None => upSettled[1].file.type = PdfType

\* C14: at most one upload request sent by the widget is unsettled.
C14_OneUploadInFlight == Cardinality(upInFlight) <= 1

\* The upload response is a success: a 2xx status and a JSON body.
Accepted(resp) == resp.net /\ ResponseOk(resp) /\ resp.json # None

\* C15: last-to-resolve wins: every uploadFile call that settles with success
\* stores its own response, whatever the hook held and whichever call was
\* triggered first; so after two overlapping successful calls uploadResult is
\* the response of the one that resolved last.
C15_LastToResolveWins ==
    /\ [][(UploadSettled /\ Accepted(upSettled'[1].resp))
          => uploadResult' = upSettled'[1].resp.json]_vars
    /\ []((upSettled # None /\ Accepted(upSettled[1].resp))
          => (uploadResult = upSettled[1].resp.json
              /\ lastAccepted = upSettled[1].resp.json))

\* Two uploads overlapped and both succeeded; the one triggered first
\* resolved last, with a response other than the one the page got from the
\* second, and it is the one the hook holds.
C15_Witness ==
    /\ upIssued = 2
    /\ upInFlight = {}
    /\ upSettled # None
    /\ upSettled[1].id = 1
    /\ Accepted(upSettled[1].resp)
    /\ pageUploadResult # None
    /\ pageUploadResult # upSettled[1].resp.json
    /\ uploadResult = upSettled[1].resp.json

\* C16: each hook only goes idle -> busy -> (success | error) -> idle: a call
\* settles only while the hook's busy flag is set, the flag is cleared only
\* by a settling call, and while the flag stays clear the result, the
\* history and the error change only through reset() / clearHistory().
C16_IdleBusyIdle ==
    /\ [][UploadSettled => uploading]_vars
    /\ [][(uploading /\ ~uploading') => UploadSettled]_vars
    /\ [][(~uploading /\ ~uploading'
             /\ << uploadResult, uploadError >>' # << uploadResult, uploadError >>)
          => last' = "resetUpload"]_vars
    /\ [][AskSettled => loading]_vars
    /\ [][(loading /\ ~loading') => AskSettled]_vars
    /\ [][(~loading /\ ~loading'
             /\ << history, questionError >>' # << history, questionError >>)
          => last' = "clearHistory"]_vars

\* C17: no two entries of the history have the same id.
C17_HistoryIdsUnique ==
    \A i, j \in 1..Len(history) :
        i # j => history[i].id # history[j].id

\* The handlers of the upload widget and their continuations.
UploadSideOps ==
    { "handleDrop", "handleFileInput", "uploadFile", "handleFileSelectResume",
      "resetUpload" }

\* C18: in every step the next history is the same list, or the list with
\* one new entry in front of the unchanged old entries (only when an ask
\* settles with success), or the empty list (only in a clearHistory step); a
\* failed ask and every upload-side step leave it unchanged.
C18_HistoryPrependOrClear ==
    /\ [][\/ history' = history
          \/ /\ AskSettled /\ askSettled'[1].out.ok
             /\ Len(history') = Len(history) + 1
             /\ \A i \in 1..Len(history) : history'[i + 1] = history[i]
          \/ /\ last' = "clearHistory"
             /\ history' = << >>]_vars
    /\ [][(AskSettled /\ ~askSettled'[1].out.ok) => history' = history]_vars
    /\ [][(last' \in UploadSideOps) => history' = history]_vars

\* A second ask has just settled with success: its entry was put in front
\* of the first one.
C18_Witness ==
    /\ last = "askQuestion"
    /\ askSettled # None
    /\ askSettled[1].out.ok
    /\ Len(history) = 2

\* C19: in the mounted question interface loading is true exactly when one
\* ask request is in flight, false exactly when none is, and two are never
\* in flight at once.
C19_LoadingIsAccurate ==
    /\ Cardinality(askInFlight) <= 1
    /\ loading <=> Cardinality(askInFlight) = 1
    /\ ~loading <=> askInFlight = {}

\* A second ask request is in flight, alone, and loading is set.
C19_Witness ==
    /\ Mounted
    /\ loading
    /\ Cardinality(askInFlight) = 1
    /\ askIssued = 2

\* C20: the upload hook never holds a result and an error at the same time.
C20_ResultAndErrorExclusive == ~(uploadResult # None /\ uploadError # None)

\* No upload is in flight and the continuation of every settled upload has
\* run.
UploadsQuiescent == upInFlight = {} /\ upSettled = None

\* C21: once no upload is in flight and every settled upload's continuation
\* has run, the page's uploadResult is the response of the last upload that
\* resolved successfully (null when none did), and the widget's uploadResult,
\* when not null, is equal to it; the widget's reset() clears the widget's
\* value and leaves the page's value and ready flag unchanged.
C21_PageHoldsLastAccepted ==
    /\ [](UploadsQuiescent
            => /\ pageUploadResult = lastAccepted
               /\ uploadResult # None => uploadResult = pageUploadResult)
    /\ [][last' = "resetUpload"
          => /\ uploadResult' = None
             /\ UNCHANGED pageVars]_vars

\* Two uploads have been answered, the later answer a success; the widget
\* was reset and the page still holds that answer.
C21_Witness ==
    /\ UploadsQuiescent
    /\ upIssued = 2
    /\ last = "resetUpload"
    /\ uploadResult = None
    /\ hasUploadedFile
    /\ pageUploadResult # None
    /\ pageUploadResult = lastAccepted

=============================================================================
